---- MODULE Spec2Model ----
(***************************************************************************)
(* A model of the mp2c asynchronous carousel (src/src/asynch.rs).          *)
(*                                                                         *)
(* Carousel::new builds one shared mpsc channel, one multiplier thread     *)
(* that owns its receiver, and per consumer one mpsc channel and one       *)
(* poller thread that owns that channel's receiver and the consumer.       *)
(* Carousel::put sends a Message on the shared channel, the multiplier     *)
(* forwards a clone of every event to every poller channel in poller       *)
(* order, and Drop for the Carousel that holds Some(multiplier) sends      *)
(* Terminate and joins the multiplier thread and then the poller threads.  *)
(*                                                                         *)
(* std::sync::mpsc semantics used: a channel is an unbounded FIFO; send    *)
(* fails exactly when the receiver has been dropped; recv blocks while the *)
(* queue is empty and a sender exists, and fails when the queue is empty   *)
(* and no sender exists.  A thread's captured values (its receiver, its    *)
(* senders) are dropped when the thread's closure ends, by return or by    *)
(* panic.  Result::unwrap on an Err panics the calling thread.             *)
(***************************************************************************)
EXTENDS Integers, Sequences, FiniteSets

\* Bounds of the model.
MaxConsumers == 2   \* largest consumer list handed to Carousel::new
MaxClones == 1      \* Carousel::clone calls
MaxPuts == 2        \* Carousel::put calls, successful or not

Owner == 0
Clones == 1..MaxClones
Handles == {Owner} \cup Clones
Lanes == 1..MaxConsumers

VARIABLES
  phase,      \* "unbuilt", "built", or "failed" (Carousel::new panicked)
  n,          \* consumers.len() of the Carousel::new call
  shared,     \* queue of the shared channel (tx, rx) of Carousel::new
  sharedRx,   \* the shared Receiver exists (not yet dropped)
  lane,       \* lane[i]: queue of the channel (ctx, crx) of poller i
  laneRx,     \* laneRx[i]: the Receiver crx of poller i exists
  laneTx,     \* multiplier_txs exists (the Senders of all poller channels)
  multPc,     \* multiplier thread: "none", "recv", "fwd", "exited", "panicked"
  multEvent,  \* the event the multiplier is forwarding
  multIdx,    \* index of the next poller channel to send multEvent on
  multLogged, \* the multiplier printed "Multiplier error receiving an event"
  lanePc,     \* poller thread i: "none", "recv", "consuming", "exited", "panicked"
  laneLogged, \* poller i printed "Poller error receiving an event"
  hPc,        \* handle h: "none", "live", "joinMult", "joinPollers" (inside
              \* Drop), "done" (dropped), "panicked" (Drop panicked)
  hMult,      \* hMult[h]: the multiplier field of handle h is Some
  joinIdx,    \* joinIdx[h]: index of the next poller the Drop of h joins
  threadSome, \* threadSome[0]: multiplier.thread is Some; [i]: poller i's
  \* history of the run, read by the properties only
  accepted,   \* Messages whose send on the shared channel returned Ok
  rejected,   \* Messages whose send returned Err (the put panicked)
  termPos,    \* -1, or Len(accepted) when the first Terminate was sent
  termSent,   \* number of Terminate events sent on the shared channel
  joins,      \* joins[w]: number of join calls made on worker w's handle
  consumed,   \* consumed[c]: the Messages consume of consumer c was called with
  latePut,    \* outcome of puts made after the owner's Drop ended
  received,   \* the events the multiplier thread has received, in order
  sent,       \* sent[i]: the events sent with Ok on poller i's channel, in order
  active,     \* active[c]: number of consume calls of consumer c in progress
  callers     \* callers[c]: the poller threads that have called consumer c

vars == <<phase, n, shared, sharedRx, lane, laneRx, laneTx, multPc, multEvent,
          multIdx, multLogged, lanePc, laneLogged, hPc, hMult, joinIdx,
          threadSome, accepted, rejected, termPos, termSent, joins,
          consumed, latePut, received, sent, active, callers>>

chanVars == <<shared, sharedRx, lane, laneRx, laneTx>>
multVars == <<multPc, multEvent, multIdx, multLogged, received, sent>>
pollerVars == <<lanePc, laneLogged, consumed, active, callers>>
handleVars == <<hPc, hMult, joinIdx, threadSome>>
dropHist == <<termPos, termSent, joins>>
putHist == <<accepted, rejected, latePut>>

----
\* enum Event { Message(Data), Terminate }
Terminate == [type |-> "Terminate"]
Message(h, d) == [type |-> "Message", src |-> h, data |-> d]

NoEvent == [type |-> "None"]

\* The pollers of the Carousel built with n consumers, in vector order.
Pollers == 1..n

\* Some Sender of the shared channel exists: the tx field of a handle that
\* has not been dropped, or whose Drop is still running.
SharedTxExists == \E h \in Handles : hPc[h] \in {"live", "joinMult", "joinPollers"}

\* A send that reports Ok whether or not anybody can receive.
SendOkAlways(rxExists) == TRUE

\* mpsc::Sender::send returns Ok exactly when the Receiver still exists.
SendOk(rxExists) == rxExists

Init ==
  /\ phase = "unbuilt"
  /\ n = 0
  /\ shared = <<>>
  /\ sharedRx = FALSE
  /\ lane = [i \in Lanes |-> <<>>]
  /\ laneRx = [i \in Lanes |-> FALSE]
  /\ laneTx = FALSE
  /\ multPc = "none"
  /\ multEvent = NoEvent
  /\ multIdx = 0
  /\ multLogged = FALSE
  /\ lanePc = [i \in Lanes |-> "none"]
  /\ laneLogged = [i \in Lanes |-> FALSE]
  /\ hPc = [h \in Handles |-> "none"]
  /\ hMult = [h \in Handles |-> FALSE]
  /\ joinIdx = [h \in Handles |-> 0]
  /\ threadSome = [w \in 0..MaxConsumers |-> FALSE]
  /\ accepted = <<>>
  /\ rejected = <<>>
  /\ termPos = -1
  /\ termSent = 0
  /\ joins = [w \in 0..MaxConsumers |-> 0]
  /\ consumed = [i \in Lanes |-> <<>>]
  /\ latePut = "none"
  /\ received = <<>>
  /\ sent = [i \in Lanes |-> <<>>]
  /\ active = [c \in Lanes |-> 0]
  /\ callers = [c \in Lanes |-> {}]

----
\* Carousel::new(consumers) with consumers.len() = k.  The assert comes
\* first: with k = 0 the call panics and nothing has been created.
\* Otherwise the shared channel, Multipier::new (one channel and one
\* Poller::new thread per consumer, then the multiplier thread) and the
\* owning handle exist when it returns.
NewAssertsNothing(k) == TRUE

NewAsserts(k) == k > 0

New(k) ==
  /\ phase = "unbuilt"
  /\ IF ~NewAsserts(k)
       THEN /\ phase' = "failed"
            /\ UNCHANGED <<n, chanVars, multVars, pollerVars, handleVars>>
       ELSE /\ phase' = "built"
            /\ n' = k
            /\ shared' = <<>>
            /\ sharedRx' = TRUE
            /\ lane' = [i \in Lanes |-> <<>>]
            /\ laneRx' = [i \in Lanes |-> i <= k]
            /\ laneTx' = TRUE
            /\ multPc' = "recv"
            /\ lanePc' = [i \in Lanes |-> IF i <= k THEN "recv" ELSE "none"]
            /\ hPc' = [hPc EXCEPT ![Owner] = "live"]
            /\ hMult' = [hMult EXCEPT ![Owner] = TRUE]
            /\ threadSome' = [w \in 0..MaxConsumers |-> w <= k]
            /\ UNCHANGED <<multEvent, multIdx, multLogged, laneLogged,
                           consumed, joinIdx, received, sent, active,
                           callers>>
  /\ UNCHANGED <<dropHist, putHist>>

\* Number of put calls made so far.
PutCount == Len(accepted) + Len(rejected)

\* A bounded channel: send blocks while one event is waiting in the queue.
SendBlocksWhenFull(q) == Len(q) >= 1

\* mpsc::channel is unbounded: send never blocks, whatever is queued.
SendBlocks(q) == FALSE

\* A channel that hands out the newest event first.
EnqueueFront(q, event) == <<event>> \o q

\* A bounded queue that sheds a Message when one event is already waiting.
EnqueueLossy(q, event) ==
  IF Len(q) >= 1 /\ event.type = "Message" THEN q ELSE Append(q, event)

\* mpsc FIFO: a successful send places the event at the back of the queue.
Enqueue(q, event) == Append(q, event)

\* Carousel::put(data) on handle h: self.tx.send(Message(data)).unwrap().
\* The send fails, and put panics in the caller, once the multiplier thread
\* has ended and dropped the shared Receiver.  Payloads are opaque to the
\* carousel: the k-th put call of a run carries payload k, so that the
\* properties can tell any two submissions apart.
Put(h) ==
  /\ hPc[h] = "live"
  /\ PutCount < MaxPuts
  /\ ~SendBlocks(shared)
  /\ LET event == Message(h, PutCount + 1)
     IN IF SendOk(sharedRx)
          THEN /\ shared' = Enqueue(shared, event)
               /\ accepted' = Append(accepted, event)
               /\ UNCHANGED rejected
          ELSE /\ rejected' = Append(rejected, event)
               /\ UNCHANGED <<shared, accepted>>
  /\ latePut' = IF hPc[Owner] \in {"done", "panicked"}
                  THEN (IF SendOk(sharedRx) THEN "ok" ELSE "failed")
                  ELSE latePut
  /\ UNCHANGED <<phase, n, sharedRx, lane, laneRx, laneTx, multVars,
                 pollerVars, handleVars, dropHist>>

\* A clone that shares the multiplier of the handle it is cloned from.
CloneMultiplierShared(h) == hMult[h]

\* Clone for Carousel: tx cloned, multiplier None.
CloneMultiplier(h) == FALSE

Clone(h) ==
  /\ hPc[h] = "live"
  /\ \E c \in Clones :
       /\ hPc[c] = "none"
       /\ \A b \in Clones : b < c => hPc[b] # "none"
       /\ hPc' = [hPc EXCEPT ![c] = "live"]
       /\ hMult' = [hMult EXCEPT ![c] = CloneMultiplier(h)]
  /\ UNCHANGED <<phase, n, chanVars, multVars, pollerVars, joinIdx,
                 threadSome, dropHist, putHist>>

\* Drop for Carousel, up to its first blocking point.  A handle without a
\* multiplier does nothing.  The handle with Some(multiplier) sends
\* Terminate (unwrap: panics when the shared Receiver is gone) and goes on
\* to join the multiplier thread.
Drop(h) ==
  /\ hPc[h] = "live"
  /\ hMult[h] => ~SendBlocks(shared)
  /\ IF hMult[h]
       THEN IF SendOk(sharedRx)
              THEN /\ shared' = Enqueue(shared, Terminate)
                   /\ termSent' = termSent + 1
                   /\ termPos' = IF termPos = -1 THEN Len(accepted) ELSE termPos
                   /\ hPc' = [hPc EXCEPT ![h] = "joinMult"]
              ELSE /\ hPc' = [hPc EXCEPT ![h] = "panicked"]
                   /\ UNCHANGED <<shared, termSent, termPos>>
       ELSE /\ hPc' = [hPc EXCEPT ![h] = "done"]
            /\ UNCHANGED <<shared, termSent, termPos>>
  /\ UNCHANGED <<phase, n, sharedRx, lane, laneRx, laneTx, multVars,
                 pollerVars, hMult, joinIdx, threadSome, joins, putHist>>

\* A join that does not wait for the thread.
EndedOrNot(pc) == TRUE

\* A join that returns only for a thread that returned.
EndedByReturn(pc) == pc = "exited"

\* A thread that has ended, by return or by panic: join on it returns.
Ended(pc) == pc \in {"exited", "panicked"}

\* Drop, lines 204-206: multiplier.thread.take() and join().unwrap().  join
\* blocks until the multiplier thread has ended and returns Err, on which
\* unwrap panics, when that thread panicked.
JoinMultiplier(h) ==
  /\ hPc[h] = "joinMult"
  /\ IF threadSome[0]
       THEN /\ Ended(multPc)
            /\ threadSome' = [threadSome EXCEPT ![0] = FALSE]
            /\ joins' = [joins EXCEPT ![0] = @ + 1]
            /\ IF multPc = "panicked"
                 THEN /\ hPc' = [hPc EXCEPT ![h] = "panicked"]
                      /\ UNCHANGED joinIdx
                 ELSE /\ hPc' = [hPc EXCEPT ![h] = "joinPollers"]
                      /\ joinIdx' = [joinIdx EXCEPT ![h] = 1]
       ELSE /\ hPc' = [hPc EXCEPT ![h] = "joinPollers"]
            /\ joinIdx' = [joinIdx EXCEPT ![h] = 1]
            /\ UNCHANGED <<threadSome, joins>>
  /\ UNCHANGED <<phase, n, chanVars, multVars, pollerVars, hMult, termPos,
                 termSent, putHist>>

\* Drop, lines 210-214: one iteration of the loop over multiplier.pollers,
\* take() and join().unwrap() on the poller's thread.  Drop returns after
\* the last poller.
JoinPoller(h) ==
  /\ hPc[h] = "joinPollers"
  /\ LET i == joinIdx[h]
         next == IF i < n
                   THEN /\ hPc' = hPc
                        /\ joinIdx' = [joinIdx EXCEPT ![h] = i + 1]
                   ELSE /\ hPc' = [hPc EXCEPT ![h] = "done"]
                        /\ joinIdx' = joinIdx
     IN IF threadSome[i]
          THEN /\ Ended(lanePc[i])
               /\ threadSome' = [threadSome EXCEPT ![i] = FALSE]
               /\ joins' = [joins EXCEPT ![i] = @ + 1]
               /\ IF lanePc[i] = "panicked"
                    THEN /\ hPc' = [hPc EXCEPT ![h] = "panicked"]
                         /\ UNCHANGED joinIdx
                    ELSE next
          ELSE /\ next
               /\ UNCHANGED <<threadSome, joins>>
  /\ UNCHANGED <<phase, n, chanVars, multVars, pollerVars, hMult, termPos,
                 termSent, putHist>>

----
\* The multiplier thread, line 83: rx.lock().unwrap().recv().  An event is
\* taken from the shared queue; with the queue empty and no Sender left the
\* receive fails, which is printed, and the loop goes on.  (No run reaches
\* that branch: the handle from Carousel::new keeps its Sender until its
\* Drop has ended, and by then the multiplier thread has ended.)
MultRecv ==
  /\ multPc = "recv"
  /\ \/ /\ shared # <<>>
        /\ multEvent' = Head(shared)
        /\ shared' = Tail(shared)
        /\ multPc' = "fwd"
        /\ multIdx' = 1
        /\ received' = Append(received, Head(shared))
        /\ UNCHANGED multLogged
     \/ /\ shared = <<>>
        /\ ~SharedTxExists
        /\ multLogged' = TRUE
        /\ UNCHANGED <<shared, multEvent, multPc, multIdx, received>>
  /\ UNCHANGED <<phase, n, sharedRx, lane, laneRx, laneTx, sent, pollerVars,
                 handleVars, dropHist, putHist>>

\* A multiplier that leaves its loop after the first event it forwards.
MultBreaksAlways(event) == TRUE

\* A multiplier that never leaves its loop.
MultBreaksNever(event) == FALSE

\* The multiplier leaves its loop after it has forwarded a Terminate.
MultBreaks(event) == event = Terminate

\* A for_each that walks the poller Senders from the last to the first.
LaneOrderReversed(k) == n + 1 - k

\* cloned.into_iter().for_each: the k-th send of a round goes to the k-th
\* Sender of multiplier_txs, which is the channel of the k-th poller.
LaneOrder(k) == k

\* The multiplier thread, lines 85-90: one tx.send(event.clone()).unwrap()
\* of the for_each over the poller Senders.  A send to a poller whose
\* Receiver is gone panics the thread.  After the last send, Terminate ends
\* the loop.  The thread's end drops the shared Receiver and the Senders.
MultSend ==
  /\ multPc = "fwd"
  /\ ~SendBlocks(lane[LaneOrder(multIdx)])
  /\ LET i == LaneOrder(multIdx)
     IN IF SendOk(laneRx[i])
          THEN /\ lane' = [lane EXCEPT ![i] = Enqueue(@, multEvent)]
               /\ sent' = [sent EXCEPT ![i] = Append(@, multEvent)]
               /\ IF multIdx < n
                    THEN /\ multIdx' = multIdx + 1
                         /\ UNCHANGED <<multPc, multEvent, shared, sharedRx,
                                        laneTx>>
                    ELSE IF MultBreaks(multEvent)
                           THEN /\ multPc' = "exited"
                                /\ multEvent' = NoEvent
                                /\ multIdx' = 0
                                /\ shared' = <<>>
                                /\ sharedRx' = FALSE
                                /\ laneTx' = FALSE
                           ELSE /\ multPc' = "recv"
                                /\ multEvent' = NoEvent
                                /\ multIdx' = 0
                                /\ UNCHANGED <<shared, sharedRx, laneTx>>
          ELSE /\ multPc' = "panicked"
               /\ multEvent' = NoEvent
               /\ multIdx' = 0
               /\ shared' = <<>>
               /\ sharedRx' = FALSE
               /\ laneTx' = FALSE
               /\ UNCHANGED <<lane, sent>>
  /\ UNCHANGED <<phase, n, laneRx, multLogged, received, pollerVars, handleVars,
                 dropHist, putHist>>

\* A poller that hands an empty payload to consume.
ConsumeArgEmptied(event) == [event EXCEPT !.data = 0]

\* What the poller hands to consume: the payload of the Message it received.
ConsumeArg(event) == event

\* Pollers that all call the consumer of the first poller.
ConsumerOfFirst(i) == 1

\* Poller::new moves its consumer into the closure of the thread it spawns:
\* poller thread i calls the i-th consumer of the vector, and no other.
ConsumerOf(i) == i

\* A poller that leaves its loop on every event.
PollerBreaksOnAny(event) == TRUE

\* Lines 43-45: the Terminate arm of the poller's match breaks the loop;
\* the Message arm calls consume.
PollerBreaks(event) == event = Terminate

\* A poller that leaves its loop when the receive fails.
AfterRecvErrExit == "exited"

\* Line 48: the Err arm prints and falls through to the next iteration.
AfterRecvErr == "recv"

\* Poller thread i, lines 36-49: rx.lock().unwrap().recv().  A Message
\* starts the call of consumer.consume; Terminate ends the thread, which
\* drops the poller's Receiver; a failed receive (queue empty, Senders
\* dropped) is printed and the loop goes on.
PollerRecv(i) ==
  /\ lanePc[i] = "recv"
  /\ \/ /\ lane[i] # <<>>
        /\ IF ~PollerBreaks(Head(lane[i]))
             THEN /\ lanePc' = [lanePc EXCEPT ![i] = "consuming"]
                  /\ consumed' = [consumed EXCEPT ![ConsumerOf(i)] =
                                    Append(@, ConsumeArg(Head(lane[i])))]
                  /\ active' = [active EXCEPT ![ConsumerOf(i)] = @ + 1]
                  /\ callers' = [callers EXCEPT ![ConsumerOf(i)] = @ \cup {i}]
                  /\ lane' = [lane EXCEPT ![i] = Tail(@)]
                  /\ UNCHANGED laneRx
             ELSE /\ lanePc' = [lanePc EXCEPT ![i] = "exited"]
                  /\ lane' = [lane EXCEPT ![i] = <<>>]
                  /\ laneRx' = [laneRx EXCEPT ![i] = FALSE]
                  /\ UNCHANGED <<consumed, active, callers>>
        /\ UNCHANGED laneLogged
     \/ /\ lane[i] = <<>>
        /\ ~laneTx
        /\ laneLogged' = [laneLogged EXCEPT ![i] = TRUE]
        /\ lanePc' = [lanePc EXCEPT ![i] = AfterRecvErr]
        /\ UNCHANGED <<lane, laneRx, consumed, active, callers>>
  /\ UNCHANGED <<phase, n, shared, sharedRx, laneTx, multVars, handleVars,
                 dropHist, putHist>>

\* consumer.consume(*data) returns: the poller loops.
ConsumeReturn(i) ==
  /\ lanePc[i] = "consuming"
  /\ lanePc' = [lanePc EXCEPT ![i] = "recv"]
  /\ active' = [active EXCEPT ![ConsumerOf(i)] = @ - 1]
  /\ UNCHANGED <<phase, n, chanVars, multVars, laneLogged, consumed, callers,
                 handleVars, dropHist, putHist>>

\* consumer.consume(*data) panics: nothing catches it, the poller thread
\* ends and its Receiver is dropped.
ConsumeFault(i) ==
  /\ lanePc[i] = "consuming"
  /\ lanePc' = [lanePc EXCEPT ![i] = "panicked"]
  /\ lane' = [lane EXCEPT ![i] = <<>>]
  /\ laneRx' = [laneRx EXCEPT ![i] = FALSE]
  /\ active' = [active EXCEPT ![ConsumerOf(i)] = @ - 1]
  /\ UNCHANGED <<phase, n, shared, sharedRx, laneTx, multVars, laneLogged,
                 consumed, callers, handleVars, dropHist, putHist>>

----
Next ==
  \/ \E k \in 0..MaxConsumers : New(k)
  \/ \E h \in Handles : Put(h)
  \/ \E h \in Handles : Clone(h)
  \/ \E h \in Handles : Drop(h)
  \/ \E h \in Handles : JoinMultiplier(h)
  \/ \E h \in Handles : JoinPoller(h)
  \/ MultRecv
  \/ MultSend
  \/ \E i \in Pollers : PollerRecv(i)
  \/ \E i \in Pollers : ConsumeReturn(i)
  \/ \E i \in Pollers : ConsumeFault(i)

Spec == Init /\ [][Next]_vars

\* The runs the progress properties are checked on: every consume call
\* returns (no ConsumeFault), and one clone is made.
FirstClone == Owner + 1

LiveNext ==
  \/ \E k \in 0..MaxConsumers : New(k)
  \/ \E h \in Handles : Put(h)
  \/ \E h \in Handles : hPc[FirstClone] = "none" /\ Clone(h)
  \/ \E h \in Handles : Drop(h)
  \/ \E h \in Handles : JoinMultiplier(h)
  \/ \E h \in Handles : JoinPoller(h)
  \/ MultRecv
  \/ MultSend
  \/ \E i \in Pollers : PollerRecv(i)
  \/ \E i \in Pollers : ConsumeReturn(i)

\* Threads are scheduled fairly: a thread that can take its next step takes
\* it.  The multiplier and poller loops and the joins of Drop are code of
\* the carousel; puts, clones and drops are up to the callers.
WorkersFair ==
  /\ WF_vars(MultRecv)
  /\ WF_vars(MultSend)
  /\ \A i \in Lanes : WF_vars(PollerRecv(i))
  /\ WF_vars(JoinMultiplier(Owner))
  /\ WF_vars(JoinPoller(Owner))

\* Every call of consume returns.
ConsumersReturn == \A i \in Lanes : WF_vars(ConsumeReturn(i))

LiveSpec == Init /\ [][LiveNext]_vars /\ WorkersFair /\ ConsumersReturn

\* As LiveSpec, but a consume call may never return.
HangSpec == Init /\ [][LiveNext]_vars /\ WorkersFair

\* The runs of LiveNext and those in which consume calls panic.
FaultNext ==
  \/ LiveNext
  \/ \E i \in Pollers : ConsumeFault(i)

\* Fair scheduling of the threads, with consume calls that may panic or
\* never return.
FaultSpec == Init /\ [][FaultNext]_vars /\ WorkersFair

TypeOK ==
  /\ phase \in {"unbuilt", "built", "failed"}
  /\ n \in 0..MaxConsumers
  /\ multPc \in {"none", "recv", "fwd", "exited", "panicked"}
  /\ \A i \in Lanes : lanePc[i] \in {"none", "recv", "consuming", "exited", "panicked"}
  /\ \A h \in Handles : hPc[h] \in {"none", "live", "joinMult", "joinPollers", "done", "panicked"}
  /\ PutCount <= MaxPuts
  /\ Len(received) <= MaxPuts + MaxClones + 1
  /\ \A i \in Lanes : Len(sent[i]) <= Len(received)
  /\ \A c \in Lanes : active[c] \in 0..MaxConsumers /\ callers[c] \subseteq Lanes

----
\* Helpers of the properties.
Range(q) == {q[k] : k \in 1..Len(q)}
FromOwner(m) == m.src = Owner
Occurrences(q, m) == Cardinality({k \in 1..Len(q) : q[k] = m})
OwnerDone == hPc[Owner] = "done"
OwnerEnded == hPc[Owner] \in {"done", "panicked"}
AllWorkersExited == multPc = "exited" /\ \A i \in Pollers : lanePc[i] = "exited"

\* Consumer i has been called with the k-th accepted Message, as its k-th call.
Delivered(k, i) == Len(consumed[i]) >= k /\ consumed[i][k] = accepted[k]

\* The Messages that were on the shared channel ahead of the Terminate.
BeforeTerminate == IF termPos = -1 THEN accepted ELSE SubSeq(accepted, 1, termPos)

\* C1: when the Drop of the owning handle has returned, every consumer has
\* been called with exactly the payloads put on the owning handle, in the
\* order of the puts; where only the owning handle has put, these are all
\* its calls (none at all when nothing was put).
C1_OwnerPutsDelivered ==
  OwnerDone =>
    \A i \in Pollers :
      /\ SelectSeq(consumed[i], FromOwner) = SelectSeq(accepted, FromOwner)
      /\ (\A m \in Range(accepted) : FromOwner(m)) => consumed[i] = accepted

C1_Witness ==
  /\ OwnerDone
  /\ n = 2
  /\ Len(accepted) >= 2
  /\ \A m \in Range(accepted) : FromOwner(m)
  /\ \A i \in Pollers : Len(consumed[i]) = Len(accepted)

C1_WitnessNoPuts ==
  OwnerDone /\ accepted = <<>> /\ \A i \in Pollers : consumed[i] = <<>>

\* C2: when the Drop of the owning handle has returned, every consumer has
\* been called exactly once with each Message that any handle put ahead of
\* the Terminate, and with nothing else: as many calls as such puts.
C2_EveryPutOncePerConsumer ==
  OwnerDone =>
    \A i \in Pollers :
      /\ Len(consumed[i]) = Len(BeforeTerminate)
      /\ \A m \in Range(BeforeTerminate) : Occurrences(consumed[i], m) = 1

C2_Witness ==
  /\ OwnerDone
  /\ n = 2
  /\ \E a, b \in Range(BeforeTerminate) : a.src = Owner /\ b.src \in Clones
  /\ \A i \in Pollers : Len(consumed[i]) = Len(BeforeTerminate)

\* C5: when the Drop of the owning handle has returned, the multiplier
\* thread and every poller thread have ended, and from then on no consumer
\* is called.
C5_DropReturnsAfterWorkers ==
  /\ [](OwnerDone => AllWorkersExited)
  /\ [][OwnerDone => consumed' = consumed]_vars

C5_Witness == OwnerDone /\ n = 2 /\ Len(consumed[2]) >= 1

\* C6: at most one Terminate is ever sent on the shared channel, every
\* worker is joined at most once, and the drop of a cloned handle changes
\* nothing but that handle: no Terminate, no join, channels and workers as
\* they were.
C6_OneShutdown ==
  /\ [](termSent <= 1 /\ \A w \in 0..MaxConsumers : joins[w] <= 1)
  /\ [][\A c \in Clones :
          (hPc[c] = "live" /\ hPc'[c] # "live") =>
            /\ hPc'[c] = "done"
            /\ UNCHANGED <<chanVars, multVars, pollerVars, dropHist, threadSome>>]_vars

C6_Witness ==
  /\ \E c \in Clones : hPc[c] = "done"
  /\ OwnerDone
  /\ n = 2
  /\ \E m \in Range(consumed[2]) : FromOwner(m)
  /\ termSent = 1
  /\ \A w \in 0..n : joins[w] = 1

\* C8: once the Drop of the owning handle has ended, by return or by panic,
\* the shared Receiver is gone, so every later put fails in its caller; no
\* consumer is ever called with the payload of a failed put.
C8_LatePutFails ==
  /\ OwnerEnded => ~sharedRx /\ shared = <<>>
  /\ latePut # "ok"
  /\ \A i \in Lanes : Range(rejected) \cap Range(consumed[i]) = {}

C8_Witness == OwnerDone /\ latePut = "failed" /\ \E m \in Range(rejected) : m.src \in Clones

\* C9: Carousel::new with an empty consumer list fails, and it leaves no
\* channel, no thread and no handle behind; a Carousel that was built has at
\* least one consumer.
C9_EmptyNewFails ==
  /\ phase = "built" => n >= 1
  /\ phase = "failed" =>
       /\ ~sharedRx /\ ~laneTx
       /\ multPc = "none"
       /\ \A i \in Lanes : lanePc[i] = "none" /\ ~laneRx[i]
       /\ \A h \in Handles : hPc[h] = "none"
       /\ \A w \in 0..MaxConsumers : ~threadSome[w]

C9_Witness == phase = "failed"

C4_ShutdownCompletes ==
  (hPc[Owner] \in {"joinMult", "joinPollers"}) ~> (OwnerDone /\ AllWorkersExited)

C4_Witness ==
  /\ OwnerDone
  /\ AllWorkersExited
  /\ n = 2
  /\ \E c \in Clones : hPc[c] = "live"
  /\ termPos >= 1
  /\ Len(accepted) > termPos

\* C7 as claimed: a panic of consume in one lane leaves the multiplier
\* thread running; the multiplier never dies by panic.
C7_FaultConfined ==
  (\E i \in Pollers : lanePc[i] = "panicked") => multPc # "panicked"

IsPrefix(p, q) == Len(p) <= Len(q) /\ SubSeq(q, 1, Len(p)) = p

\* One of p and q is an initial part of the other.
PrefixComparable(p, q) == IsPrefix(p, q) \/ IsPrefix(q, p)

\* The last event of q is Terminate.
EndsWithTerminate(q) == q # <<>> /\ q[Len(q)] = Terminate

\* The Messages of q that were put through handle h.
FromHandle(q, h) == LET Through(m) == m.src = h IN SelectSeq(q, Through)

\* The Messages of q, without its Terminates.
MessagesOf(q) == LET IsMessage(e) == e.type = "Message" IN SelectSeq(q, IsMessage)

\* No call of consume has panicked.
NoConsumerFault == \A i \in Pollers : lanePc[i] # "panicked"

\* C11: a consumer is never called concurrently.  In every reachable state
\* at most one consume call is in progress per consumer, the call in
\* progress is the one of the consumer's own poller thread, and no other
\* thread has ever called that consumer, whatever handles are putting.
C11_OneCallPerConsumer ==
  \A c \in Lanes :
    /\ active[c] <= 1
    /\ callers[c] \subseteq {c}
    /\ active[c] = 1 <=> lanePc[c] = "consuming"

\* Both consumers are in a call at the same time, on Messages put through
\* two different handles.
C11_Witness ==
  /\ n = 2
  /\ active[1] = 1 /\ active[2] = 1
  /\ callers[1] = {1} /\ callers[2] = {2}
  /\ \E a, b \in Range(accepted) : a.src = Owner /\ b.src \in Clones

\* C12: a shutdown that meets a dead multiplier thread fails in the thread
\* that drops the owning handle and does not hang.  A Drop of the owning
\* handle that starts after the multiplier thread panicked panics in its
\* first step, and a Drop that waits in the join of a multiplier thread
\* that has panicked, while forwarding Terminate or before, panics.
C12_ShutdownFailureSurfaces ==
  /\ [][(hPc[Owner] = "live" /\ hPc'[Owner] # "live" /\ multPc = "panicked")
          => hPc'[Owner] = "panicked"]_vars
  /\ (hPc[Owner] = "joinMult" /\ multPc = "panicked") ~> hPc[Owner] = "panicked"

\* The multiplier thread panicked on the send of Terminate to a poller
\* whose thread had ended, and the Drop of the owning handle, which was
\* waiting in the join, panicked.
C12_Witness ==
  /\ hPc[Owner] = "panicked"
  /\ multPc = "panicked"
  /\ received # <<>> /\ received[Len(received)] = Terminate
  /\ joins[0] = 1

\* The multiplier thread had panicked before the owning handle was dropped,
\* and the Drop panicked on its send of Terminate.
C12_WitnessDeadAtDrop ==
  /\ hPc[Owner] = "panicked"
  /\ multPc = "panicked"
  /\ termSent = 0
  /\ joins[0] = 0

\* C13: the fan-out keeps the order of the shared channel in every lane.
\* The events sent to poller i are an initial part of the events the
\* multiplier thread has received; an event goes to the pollers in the
\* order of the pollers, so that while an event is being forwarded the
\* pollers before the current one have been sent it and the others have
\* not; for i < j poller i has been sent as many events as poller j or one
\* more; and what two consumers have been called with is comparable by
\* prefix.
C13_FanOutKeepsOrder ==
  /\ \A i \in Pollers : IsPrefix(sent[i], received)
  /\ multPc = "fwd" =>
       \A i \in Pollers :
         Len(sent[i]) = IF i < multIdx THEN Len(received) ELSE Len(received) - 1
  /\ \A i, j \in Pollers :
       i < j => /\ Len(sent[i]) - Len(sent[j]) \in {0, 1}
                /\ PrefixComparable(consumed[i], consumed[j])

\* The multiplier thread has received two Messages of two handles and is
\* between the two sends of the second; consumer 1 has been called with
\* both and consumer 2 with the first.
C13_Witness ==
  /\ n = 2
  /\ multPc = "fwd" /\ multIdx = 2
  /\ Len(received) = 2 /\ Terminate \notin Range(received)
  /\ received[1].src # received[2].src
  /\ Len(sent[1]) = 2 /\ Len(sent[2]) = 1
  /\ Len(consumed[1]) = 2 /\ Len(consumed[2]) = 1

\* C14: the multiplier thread forwards Terminate as any event and leaves
\* its loop right after.  No poller is ever sent anything after a
\* Terminate; once the multiplier thread has left its loop every poller has
\* been sent exactly one Terminate, as the last event on its channel; and a
\* Message that went on the shared channel behind the Terminate has not
\* been sent to any poller, in any state.  (A multiplier thread that ends
\* by the panic of a failed send has not left its loop after Terminate.)
C14_TerminateForwardedLast ==
  /\ \A i \in Pollers :
       \A k \in 1..Len(sent[i]) : sent[i][k] = Terminate => k = Len(sent[i])
  /\ multPc = "exited" =>
       \A i \in Pollers :
         Occurrences(sent[i], Terminate) = 1 /\ EndsWithTerminate(sent[i])
  /\ termPos # -1 =>
       \A i \in Pollers : \A k \in (termPos + 1)..Len(accepted) :
         accepted[k] \notin Range(sent[i])

\* The multiplier thread has left its loop with a Message accepted behind
\* the Terminate, and both pollers were sent a Message and the Terminate.
C14_Witness ==
  /\ n = 2
  /\ multPc = "exited"
  /\ termPos = 1 /\ Len(accepted) = 2
  /\ \A i \in Pollers : Len(sent[i]) = 2

\* C15: Drop of the owning handle goes in a fixed order.  It waits for the
\* multiplier thread only after its one Terminate is on the shared channel,
\* no join is made before that; it waits for the first poller, and any
\* poller is joined, only after the join of the multiplier thread, which has
\* left its loop; and from the return of that join on every poller has
\* been sent Terminate.  (The join of a multiplier thread that panicked
\* returns Err, on which Drop panics and joins no poller.)
C15_ShutdownOrder ==
  /\ termSent <= 1
  /\ hPc[Owner] = "joinMult" => termSent = 1
  /\ (\E t \in 0..MaxConsumers : joins[t] >= 1) => termSent = 1
  /\ hPc[Owner] \in {"joinPollers", "done"} =>
       /\ multPc = "exited"
       /\ joins[0] = 1
       /\ \A i \in Pollers : Terminate \in Range(sent[i])
  /\ \A i \in Pollers : joins[i] >= 1 => joins[0] = 1 /\ multPc = "exited"

\* The join of the multiplier thread has returned and Drop waits for the
\* first poller, whose consumer is still in a call.
C15_Witness ==
  /\ n = 2
  /\ hPc[Owner] = "joinPollers" /\ joinIdx[Owner] = 1
  /\ joins[0] = 1 /\ joins[1] = 0
  /\ lanePc[1] = "consuming"
  /\ Terminate \in Range(lane[1]) /\ Terminate \in Range(lane[2])

\* C16: a poller thread stops only by taking Terminate from its channel or
\* by a panic of its consumer.  It leaves its loop only in the step that
\* takes Terminate, it panics only out of a consume call, a failed receive
\* is recorded and leaves it in its loop, and in no state has a poller that
\* was not sent Terminate left its loop.
C16_PollerStopsOnlyOnTerminate ==
  /\ [](\A i \in Pollers : lanePc[i] = "exited" => EndsWithTerminate(sent[i]))
  /\ [][\A i \in Pollers :
          /\ (lanePc'[i] = "exited" /\ lanePc[i] # "exited") =>
               lanePc[i] = "recv" /\ lane[i] # <<>> /\ Head(lane[i]) = Terminate
          /\ (lanePc'[i] = "panicked" /\ lanePc[i] # "panicked") =>
               lanePc[i] = "consuming"
          /\ (lane[i] = <<>> /\ ~laneTx /\ lanePc[i] = "recv") =>
               lanePc'[i] = "recv"
          /\ (laneLogged'[i] /\ ~laneLogged[i]) =>
               lane[i] = <<>> /\ ~laneTx /\ lanePc'[i] = "recv"]_vars

\* The Senders of the pollers are gone, poller 2 was not sent Terminate,
\* its receive has failed and it is still in its loop.
C16_Witness ==
  /\ n = 2
  /\ ~laneTx
  /\ Terminate \notin Range(sent[2])
  /\ laneLogged[2]
  /\ lanePc[2] = "recv"

C18_NoSendFailsWithoutFault ==
  /\ NoConsumerFault => multPc # "panicked"
  /\ (NoConsumerFault /\ multPc = "fwd") => SendOk(laneRx[LaneOrder(multIdx)])
  /\ multPc = "fwd" => lanePc[LaneOrder(multIdx)] # "exited"
  /\ \A i \in Pollers :
       lanePc[i] = "exited" =>
         EndsWithTerminate(sent[i]) /\ Terminate \notin Range(lane[i])

\* Without a panic the Messages of two handles and the Terminate were sent
\* to both pollers, and all threads have left their loops.
C18_Witness ==
  /\ n = 2
  /\ NoConsumerFault
  /\ AllWorkersExited
  /\ \A i \in Pollers : Len(sent[i]) = 3
  /\ \E a, b \in Range(received) : a.type = "Message" /\ b.type = "Message" /\ a.src # b.src

====
